---- MODULE Spec2Model ----
(***************************************************************************)
(* Model of src/app.js: the App component's view state, the Gemini gateway *)
(* call (callGeminiApi) and the five handlers with the two textarea        *)
(* onChange callbacks.                                                     *)
(*                                                                         *)
(* A handler runs in two atomic steps: the part before `await fetch`       *)
(* (guard, state resets, clearError, request issued) and the part after    *)
(* the response body has settled (normalisation in callGeminiApi, the      *)
(* catch block, the handler's continuation and its finally block).         *)
(*                                                                         *)
(* The specifications share the actions:                                   *)
(*   Spec        the handlers as functions: each may be called in every    *)
(*               state in which its own call is not outstanding, so that   *)
(*               their own guards are exercised;                           *)
(*   SpecUI      a handler is called only when the JSX renders its control *)
(*               and the control is not disabled;                          *)
(*   FairSpec    SpecUI, where every issued fetch settles;                 *)
(*   GatewaySpec callGeminiApi alone, on every answer of the network.      *)
(***************************************************************************)
EXTENDS Integers, Sequences, FiniteSets, TLC

\* ---------------------------------------------------------------- bounds
MaxInFlight == 2     \* requests outstanding at once (all operations together)

\* ---------------------------------------------------------------- strings
\* The text of a string is a sequence of pieces: single characters (" " is
\* whitespace) or longer literals; concatenation is \o.

\* what the user types into a textarea: nothing, blanks only, or a text
TypedTexts == {<<>>, <<" ">>, <<"a">>}

\* the texts the AI answers an enhancement with
ReplyTexts == {<<>>, <<" ">>, <<"b", " ">>}

\* the description of a generated preview
Descriptions == {<<"d">>}

RECURSIVE trimStart(_)
trimStart(s) == IF s # <<>> /\ Head(s) = " " THEN trimStart(Tail(s)) ELSE s

RECURSIVE trimEnd(_)
trimEnd(s) ==
    IF s # <<>> /\ s[Len(s)] = " " THEN trimEnd(SubSeq(s, 1, Len(s) - 1)) ELSE s

\* String.prototype.trim
trim(s) == trimEnd(trimStart(s))

\* ---------------------------------------------------------------- JS values
\* A string value carries its text: '' (empty), text that is not JSON
\* (plain, with its characters), or the serialisation of a JSON value.
JNull == [t |-> "null"]
JUndef == [t |-> "undefined"]
JStr(s) == [t |-> "string", txt |-> IF s = <<>> THEN "empty" ELSE "plain", s |-> s]
JsonText(v) == [t |-> "string", txt |-> "json", v |-> v]
JArr(a) == [t |-> "array", a |-> a]
JObj(f) == [t |-> "object", f |-> f]
NoFields == [k \in {} |-> JNull]
EmptyObject == JObj(NoFields)

\* ToBoolean, as used by `if (x)`, `!x`, `a && b` and `a || b`
Truthy(v) ==
    CASE v.t = "null" -> FALSE
      [] v.t = "undefined" -> FALSE
      [] v.t = "string" -> v.txt # "empty"
      [] OTHER -> TRUE

\* property read o.k on a non-null value (a missing property reads as undefined)
Get(o, k) == IF o.t = "object" /\ k \in DOMAIN o.f THEN o.f[k] ELSE JUndef

\* a.length > 0 for an array; for other values .length is undefined and the
\* comparison is false
NonEmptyArray(v) == v.t = "array" /\ Len(v.a) > 0

\* a property read on null or undefined throws a TypeError
Nullish(v) == v.t \in {"null", "undefined"}

\* JSON.parse: the value, or the SyntaxError it throws
JSONParse(d) ==
    CASE d.t # "string" -> [throws |-> TRUE, msg |-> <<"\"undefined\" is not valid JSON">>]
      [] d.txt = "empty" -> [throws |-> TRUE, msg |-> <<"Unexpected end of JSON input">>]
      [] d.txt = "plain" -> [throws |-> TRUE, msg |-> <<"Unexpected token">>]
      [] OTHER -> [throws |-> FALSE, v |-> d.v]

\* ---------------------------------------------------------------- error messages
\* An error message is the sequence of the pieces its template literal
\* concatenates; the empty sequence is ''.
NoError == <<>>
MsgIdea == <<"Please enter a simple idea to enhance.">>
MsgPrompt == <<"Please enhance a prompt first or provide a custom prompt.">>
MsgNeedPreview == <<"Please generate an app preview first.">>
MsgPreviewMalformed == <<"Failed to generate a structured app preview. The AI might not have returned complete data or valid JSON.">>
MsgNamesMalformed == <<"Failed to generate names/slogans. AI response was incomplete or malformed.">>
MsgMonetizationMalformed == <<"Failed to generate monetization strategies. AI response was incomplete or malformed.">>
MsgTechStackMalformed == <<"Failed to generate tech stack suggestions. AI response was incomplete or malformed.">>

\* ---------------------------------------------------------------- the network
\* What the remote service can answer to one fetch.
ErrorStatuses == {429, 500}

\* body and statusText of a reply with a non-success status
ErrorReplies ==
    { [body |-> JsonText(JObj([error |-> JObj([message |-> JStr(<<"quota exceeded">>)])])),
       statusText |-> <<"Internal Server Error">>],
      [body |-> JsonText(EmptyObject), statusText |-> <<"Internal Server Error">>],
      [body |-> JStr(<<"<html>">>), statusText |-> <<>>],
      [body |-> JStr(<<>>), statusText |-> <<>>] }

\* the `text` of the first part of the first candidate
PartTexts(op) ==
    CASE op = "enhance" ->
           {JStr(s) : s \in ReplyTexts}
      [] op = "preview" ->
           {JStr(<<>>), JStr(<<"oops">>)} \cup
           {JsonText(v) : v \in
              { JNull, EmptyObject,
                JObj([appName |-> JStr(<<"n">>)]),
                JObj([description |-> JStr(<<>>)]) } \cup
              { JObj([description |-> JStr(d)]) : d \in Descriptions } \cup
              { JObj([appName |-> JStr(<<"n">>), description |-> JStr(d),
                      keyFeatures |-> JArr(<<JStr(<<"f">>)>>)]) : d \in Descriptions }}
      [] op = "names" ->
           {JStr(<<>>), JStr(<<"oops">>)} \cup
           {JsonText(v) : v \in
              { JNull, EmptyObject,
                JObj([names |-> JArr(<<JStr(<<"A">>)>>)]),
                JObj([taglines |-> JArr(<<JStr(<<"T1">>)>>)]),
                JObj([names |-> JArr(<<JStr(<<"A">>)>>),
                      taglines |-> JArr(<<JStr(<<"T1">>)>>)]) }}
      [] op = "monetization" ->
           {JStr(<<>>), JStr(<<"oops">>)} \cup
           {JsonText(v) : v \in
              { JNull, EmptyObject,
                JObj([strategies |-> JNull]),
                JObj([strategies |->
                        JArr(<<JObj([name |-> JStr(<<"ads">>),
                                     description |-> JStr(<<"d">>)])>>)]) }}
      [] OTHER ->
           {JStr(<<>>), JStr(<<"oops">>)} \cup
           {JsonText(v) : v \in
              { JNull, EmptyObject, JObj([frontend |-> JStr(<<"React">>)]) }}

Content(parts) == JObj([content |-> JObj([parts |-> parts])])

\* the outer envelope of a 2xx reply
Envelopes(op) ==
    { JNull,
      EmptyObject,
      JObj([candidates |-> JArr(<<>>)]),
      JObj([candidates |-> JArr(<<JNull>>)]),
      JObj([candidates |-> JArr(<<EmptyObject>>)]),
      JObj([candidates |-> JArr(<<JObj([content |-> EmptyObject])>>)]),
      JObj([candidates |-> JArr(<<Content(JArr(<<>>))>>)]),
      JObj([candidates |-> JArr(<<Content(JArr(<<EmptyObject>>))>>)]) } \cup
    { JObj([candidates |-> JArr(<<Content(JArr(<<JObj([text |-> x])>>))>>)]) :
        x \in PartTexts(op) }

Outcomes(op) ==
    {[k |-> "reject"]} \cup
    {[k |-> "response", status |-> n, statusText |-> e.statusText, body |-> e.body] :
        n \in ErrorStatuses, e \in ErrorReplies} \cup
    {[k |-> "response", status |-> 200, statusText |-> <<>>, body |-> b] :
        b \in {JStr(<<>>), JStr(<<"<html>">>)} \cup {JsonText(e) : e \in Envelopes(op)}}

\* ---------------------------------------------------------------- callGeminiApi
Throw(class, msg) == [thrown |-> TRUE, class |-> class, msg |-> msg, value |-> JUndef]
Return(v) == [thrown |-> FALSE, class |-> "none", msg |-> <<>>, value |-> v]

\* response.ok
ResponseOk(o) == o.status >= 200 /\ o.status <= 299

\* the `if (!response.ok)` block: response.json() and the thrown API error
ThrowApiError(o) ==
    LET parsed == JSONParse(o.body)
        errorData == parsed.v
        err == Get(errorData, "error")
        message == IF Nullish(err) THEN JUndef ELSE Get(err, "message")
    IN  IF parsed.throws THEN Throw("http", parsed.msg)
        ELSE IF Nullish(errorData)
        THEN Throw("http", <<"Cannot read properties of null (reading 'error')">>)
        ELSE Throw("http", <<"API error: ", ToString(o.status), " - ">>
                             \o (IF Truthy(message) THEN message.s ELSE o.statusText))

\* the condition of the `if` over result.candidates[0].content.parts
HasParts(result) ==
    LET candidates == Get(result, "candidates")
        content == Get(candidates.a[1], "content")
        parts == Get(content, "parts")
    IN  /\ Truthy(candidates)
        /\ NonEmptyArray(candidates)
        /\ Truthy(content)
        /\ Truthy(parts)
        /\ NonEmptyArray(parts)

\* a TypeError raised while that condition or the text read is evaluated
PathThrows(result) ==
    LET candidates == Get(result, "candidates")
    IN  \/ Nullish(result)
        \/ NonEmptyArray(candidates) /\ Nullish(candidates.a[1])

\* the body of the try block, from the settled fetch to return or throw
TryBlock(o, schema) ==
    IF o.k = "reject" THEN Throw("reject", <<"Failed to fetch">>)
    ELSE IF ~ResponseOk(o) THEN ThrowApiError(o)
    ELSE IF ~Truthy(o.body)
    THEN Throw("emptybody", <<"Empty response from AI. Please try again.">>)
    ELSE LET parsed == JSONParse(o.body)
             result == parsed.v
             textResult ==
                 Get(Get(Get(Get(result, "candidates").a[1], "content"), "parts").a[1], "text")
             inner == JSONParse(textResult)
         IN  IF parsed.throws
             THEN Throw("badenvelope",
                        <<"AI returned invalid response format: ">> \o o.body.s
                          \o <<"... (Error: ">> \o parsed.msg \o <<")">>)
             ELSE IF PathThrows(result)
             THEN Throw("nopath", <<"Cannot read properties of null">>)
             ELSE IF ~HasParts(result)
             THEN Throw("nopath", <<"Unexpected API response structure or no content generated.">>)
             ELSE IF schema
             THEN IF inner.throws
                  THEN Throw("badinner",
                             <<"AI returned invalid JSON within its content. Please try again.">>)
                  ELSE Return(inner.v)
             ELSE Return(textResult)

\* the catch block: the message it stores and the placeholder it returns
CatchMessage(msg) == <<"Failed to connect to AI: ">> \o msg \o <<". Please try again.">>
Placeholder(schema) == IF schema THEN EmptyObject ELSE JStr(<<>>)


\* callGeminiApi whose catch block returns null
callGeminiApi_NullOnFailure(o, schema) ==
    LET t == TryBlock(o, schema)
    IN  IF t.thrown
        THEN [ret |-> JNull, failed |-> TRUE, class |-> t.class,
              error |-> CatchMessage(t.msg), raised |-> FALSE]
        ELSE [ret |-> t.value, failed |-> FALSE, class |-> "none", error |-> NoError,
              raised |-> FALSE]

\* callGeminiApi after its fetch has settled with outcome o: the returned
\* value, whether the catch block ran (for which failure class, and the
\* message it passed to setError), and whether an exception leaves the
\* function (every throw is inside the try block, whose catch returns)
callGeminiApi(o, schema) ==
    LET t == TryBlock(o, schema)
    IN  IF t.thrown
        THEN [ret |-> Placeholder(schema), failed |-> TRUE, class |-> t.class,
              error |-> CatchMessage(t.msg), raised |-> FALSE]
        ELSE [ret |-> t.value, failed |-> FALSE, class |-> "none", error |-> NoError,
              raised |-> FALSE]

\* ---------------------------------------------------------------- state
VARIABLES
    simpleIdea,               \* useState('')
    enhancedPrompt,           \* useState('')
    customPrompt,             \* useState('')
    appPreview,               \* useState(null)
    isLoadingEnhance,         \* useState(false)
    isLoadingPreview,         \* useState(false)
    error,                    \* useState('')
    isPromptEnhanced,         \* useState(false)
    appNamesSlogans,          \* useState(null)
    monetizationStrategies,   \* useState(null)
    techStackSuggestions,     \* useState(null)
    isLoadingNames,           \* useState(false)
    isLoadingMonetization,    \* useState(false)
    isLoadingTechStack,       \* useState(false)
    inFlight,                 \* the fetches that have not settled: how many
                              \* there are of each [op, input]
    lastEvent                 \* the callback that ran last and what it saw

slots == <<enhancedPrompt, customPrompt, appPreview, isPromptEnhanced,
           appNamesSlogans, monetizationStrategies, techStackSuggestions>>
flags == <<isLoadingEnhance, isLoadingPreview, isLoadingNames,
           isLoadingMonetization, isLoadingTechStack>>
vars == <<simpleIdea, slots, flags, error, inFlight, lastEvent>>

Ops == {"enhance", "preview", "names", "monetization", "techstack"}

\* responseSchema is passed by every handler but handleEnhancePrompt
HasSchema(op) == op # "enhance"

\* a request is told by its operation and the text built into its prompt
Requests == [op : Ops, input : TypedTexts \cup {trim(s) : s \in ReplyTexts} \cup Descriptions]

Event(op, kind, class, ret, input) ==
    [op |-> op, kind |-> kind, class |-> class, ret |-> ret, input |-> input]

Init ==
    /\ simpleIdea = <<>>
    /\ enhancedPrompt = <<>>
    /\ customPrompt = <<>>
    /\ appPreview = JNull
    /\ isLoadingEnhance = FALSE
    /\ isLoadingPreview = FALSE
    /\ error = NoError
    /\ isPromptEnhanced = FALSE
    /\ appNamesSlogans = JNull
    /\ monetizationStrategies = JNull
    /\ techStackSuggestions = JNull
    /\ isLoadingNames = FALSE
    /\ isLoadingMonetization = FALSE
    /\ isLoadingTechStack = FALSE
    /\ inFlight = [r \in Requests |-> 0]
    /\ lastEvent = Event("none", "init", "none", JUndef, <<>>)

\* ---------------------------------------------------------------- fetch
Outstanding(op) == {r \in Requests : r.op = op /\ inFlight[r] > 0}

RECURSIVE Sum(_, _)
Sum(f, S) == IF S = {} THEN 0 ELSE LET x == CHOOSE y \in S : TRUE IN f[x] + Sum(f, S \ {x})

\* room for one more outstanding request
CanIssue == Sum(inFlight, Requests) < MaxInFlight

\* Issue sending the request a second time
Issue_Twice(op, input) ==
    inFlight' = [inFlight EXCEPT ![[op |-> op, input |-> input]] = @ + 2]

\* fetch(apiUrl, ...) called with a prompt built from `input`
Issue(op, input) ==
    inFlight' = [inFlight EXCEPT ![[op |-> op, input |-> input]] = @ + 1]

\* the fetch of request r settles
Settle(r) == inFlight' = [inFlight EXCEPT ![r] = @ - 1]

\* what callGeminiApi can hand back to the handler of each operation
GatewayResults ==
    [op \in Ops |-> {callGeminiApi(o, HasSchema(op)) : o \in Outcomes(op)}]

\* ErrorAfter with a clearError() on the success path as well
ErrorAfter_ClearsOnSuccess(g) == IF g.failed THEN g.error ELSE NoError

\* `error` once the call has returned: setError ran in the catch block only
ErrorAfter(g) == IF g.failed THEN g.error ELSE error

\* ---------------------------------------------------------------- textareas

\* onChangeSimpleIdea without setCustomPrompt('')
onChangeSimpleIdea_KeepsCustomPrompt ==
    \E v \in TypedTexts \ {simpleIdea} :
        /\ simpleIdea' = v
        /\ error' = NoError
        /\ isPromptEnhanced' = FALSE
        /\ appPreview' = JNull
        /\ enhancedPrompt' = <<>>
        /\ appNamesSlogans' = JNull
        /\ monetizationStrategies' = JNull
        /\ techStackSuggestions' = JNull
        /\ lastEvent' = Event("idea", "edit", "none", JUndef, <<>>)
        /\ UNCHANGED <<customPrompt, flags, inFlight>>

\* onChange of the simple-idea textarea
onChangeSimpleIdea ==
    \E v \in TypedTexts \ {simpleIdea} :
        /\ simpleIdea' = v
        /\ error' = NoError
        /\ isPromptEnhanced' = FALSE
        /\ appPreview' = JNull
        /\ enhancedPrompt' = <<>>
        /\ customPrompt' = <<>>
        /\ appNamesSlogans' = JNull
        /\ monetizationStrategies' = JNull
        /\ techStackSuggestions' = JNull
        /\ lastEvent' = Event("idea", "edit", "none", JUndef, <<>>)
        /\ UNCHANGED <<flags, inFlight>>

\* onChangeCustomPrompt writing the typed text to enhancedPrompt as well
onChangeCustomPrompt_SyncsEnhanced ==
    \E v \in TypedTexts \ {customPrompt} :
        /\ customPrompt' = v
        /\ enhancedPrompt' = v
        /\ lastEvent' = Event("prompt", "edit", "none", JUndef, <<>>)
        /\ UNCHANGED <<simpleIdea, appPreview, isPromptEnhanced,
                       appNamesSlogans, monetizationStrategies, techStackSuggestions,
                       flags, error, inFlight>>

\* onChange of the enhanced-prompt textarea
onChangeCustomPrompt ==
    \E v \in TypedTexts \ {customPrompt} :
        /\ customPrompt' = v
        /\ lastEvent' = Event("prompt", "edit", "none", JUndef, <<>>)
        /\ UNCHANGED <<simpleIdea, enhancedPrompt, appPreview, isPromptEnhanced,
                       appNamesSlogans, monetizationStrategies, techStackSuggestions,
                       flags, error, inFlight>>

\* ---------------------------------------------------------------- handleEnhancePrompt

\* handleEnhancePrompt with the guard `!simpleIdea` (no trim)
handleEnhancePrompt_NoTrim ==
    /\ simpleIdea # <<>> => CanIssue
    /\ IF simpleIdea = <<>>
       THEN /\ error' = MsgIdea
            /\ lastEvent' = Event("enhance", "guard", "none", JUndef, simpleIdea)
            /\ UNCHANGED <<simpleIdea, slots, flags, inFlight>>
       ELSE /\ isLoadingEnhance' = TRUE
            /\ appPreview' = JNull
            /\ enhancedPrompt' = <<>>
            /\ customPrompt' = <<>>
            /\ appNamesSlogans' = JNull
            /\ monetizationStrategies' = JNull
            /\ techStackSuggestions' = JNull
            /\ error' = NoError
            /\ Issue("enhance", simpleIdea)
            /\ lastEvent' = Event("enhance", "issue", "none", JUndef, simpleIdea)
            /\ UNCHANGED <<simpleIdea, isPromptEnhanced, isLoadingPreview, isLoadingNames,
                           isLoadingMonetization, isLoadingTechStack>>

\* handleEnhancePrompt clearing the preview but not the three auxiliary
\* results
handleEnhancePrompt_KeepsAux ==
    /\ trim(simpleIdea) # <<>> => CanIssue
    /\ IF trim(simpleIdea) = <<>>
       THEN /\ error' = MsgIdea
            /\ lastEvent' = Event("enhance", "guard", "none", JUndef, simpleIdea)
            /\ UNCHANGED <<simpleIdea, slots, flags, inFlight>>
       ELSE /\ isLoadingEnhance' = TRUE
            /\ appPreview' = JNull
            /\ enhancedPrompt' = <<>>
            /\ customPrompt' = <<>>
            /\ error' = NoError
            /\ Issue("enhance", simpleIdea)
            /\ lastEvent' = Event("enhance", "issue", "none", JUndef, simpleIdea)
            /\ UNCHANGED <<simpleIdea, isPromptEnhanced, appNamesSlogans,
                           monetizationStrategies, techStackSuggestions,
                           isLoadingPreview, isLoadingNames,
                           isLoadingMonetization, isLoadingTechStack>>

\* up to `await fetch`
handleEnhancePrompt ==
    /\ trim(simpleIdea) # <<>> => CanIssue
    /\ IF trim(simpleIdea) = <<>>
       THEN /\ error' = MsgIdea
            /\ lastEvent' = Event("enhance", "guard", "none", JUndef, simpleIdea)
            /\ UNCHANGED <<simpleIdea, slots, flags, inFlight>>
       ELSE /\ isLoadingEnhance' = TRUE
            /\ appPreview' = JNull
            /\ enhancedPrompt' = <<>>
            /\ customPrompt' = <<>>
            /\ appNamesSlogans' = JNull
            /\ monetizationStrategies' = JNull
            /\ techStackSuggestions' = JNull
            /\ error' = NoError
            /\ Issue("enhance", simpleIdea)
            /\ lastEvent' = Event("enhance", "issue", "none", JUndef, simpleIdea)
            /\ UNCHANGED <<simpleIdea, isPromptEnhanced, isLoadingPreview, isLoadingNames,
                           isLoadingMonetization, isLoadingTechStack>>


\* EnhanceSettled dropping a response whose request was built from an Idea
\* that is no longer the current one
EnhanceSettled_IgnoresStale ==
    \E r \in Outstanding("enhance"), g \in GatewayResults["enhance"] :
        LET generatedPrompt == g.ret
        IN  /\ Settle(r)
            /\ error' = ErrorAfter(g)
            /\ IF ~g.raised /\ Truthy(generatedPrompt) /\ r.input = simpleIdea
               THEN /\ enhancedPrompt' = generatedPrompt.s
                    /\ customPrompt' = generatedPrompt.s
                    /\ isPromptEnhanced' = TRUE
               ELSE UNCHANGED <<enhancedPrompt, customPrompt, isPromptEnhanced>>
            /\ isLoadingEnhance' = FALSE
            /\ lastEvent' = Event("enhance", "settle", g.class, g.ret, r.input)
            /\ UNCHANGED <<simpleIdea, appPreview, appNamesSlogans, monetizationStrategies,
                           techStackSuggestions, isLoadingPreview, isLoadingNames,
                           isLoadingMonetization, isLoadingTechStack>>

\* EnhanceSettled without setCustomPrompt(generatedPrompt)
EnhanceSettled_NoSeed ==
    \E r \in Outstanding("enhance"), g \in GatewayResults["enhance"] :
        LET generatedPrompt == g.ret
        IN  /\ Settle(r)
            /\ error' = ErrorAfter(g)
            /\ IF ~g.raised /\ Truthy(generatedPrompt)
               THEN /\ enhancedPrompt' = generatedPrompt.s
                    /\ isPromptEnhanced' = TRUE
               ELSE UNCHANGED <<enhancedPrompt, isPromptEnhanced>>
            /\ isLoadingEnhance' = FALSE
            /\ lastEvent' = Event("enhance", "settle", g.class, g.ret, r.input)
            /\ UNCHANGED <<simpleIdea, customPrompt, appPreview, appNamesSlogans,
                           monetizationStrategies, techStackSuggestions, isLoadingPreview,
                           isLoadingNames, isLoadingMonetization, isLoadingTechStack>>

\* from the settled fetch to the end of the finally block
EnhanceSettled ==
    \E r \in Outstanding("enhance"), g \in GatewayResults["enhance"] :
        LET generatedPrompt == g.ret
        IN  /\ Settle(r)
            /\ error' = ErrorAfter(g)
            /\ IF ~g.raised /\ Truthy(generatedPrompt)
               THEN /\ enhancedPrompt' = generatedPrompt.s
                    /\ customPrompt' = generatedPrompt.s
                    /\ isPromptEnhanced' = TRUE
               ELSE UNCHANGED <<enhancedPrompt, customPrompt, isPromptEnhanced>>
            /\ isLoadingEnhance' = FALSE
            /\ lastEvent' = Event("enhance", "settle", g.class, g.ret, r.input)
            /\ UNCHANGED <<simpleIdea, appPreview, appNamesSlogans, monetizationStrategies,
                           techStackSuggestions, isLoadingPreview, isLoadingNames,
                           isLoadingMonetization, isLoadingTechStack>>

\* ---------------------------------------------------------------- handleGenerateAppPreview

\* handleGenerateAppPreview without the three auxiliary resets
handleGenerateAppPreview_NoAuxClear ==
    LET promptToUse == trim(customPrompt)
    IN  /\ promptToUse # <<>> => CanIssue
        /\ IF promptToUse = <<>>
           THEN /\ error' = MsgPrompt
                /\ lastEvent' = Event("preview", "guard", "none", JUndef, promptToUse)
                /\ UNCHANGED <<simpleIdea, slots, flags, inFlight>>
           ELSE /\ isLoadingPreview' = TRUE
                /\ appPreview' = JNull
                /\ error' = NoError
                /\ Issue("preview", promptToUse)
                /\ lastEvent' = Event("preview", "issue", "none", JUndef, promptToUse)
                /\ UNCHANGED <<simpleIdea, enhancedPrompt, customPrompt, isPromptEnhanced,
                               appNamesSlogans, monetizationStrategies, techStackSuggestions,
                               isLoadingEnhance, isLoadingNames, isLoadingMonetization,
                               isLoadingTechStack>>

handleGenerateAppPreview ==
    LET promptToUse == trim(customPrompt)
    IN  /\ promptToUse # <<>> => CanIssue
        /\ IF promptToUse = <<>>
           THEN /\ error' = MsgPrompt
                /\ lastEvent' = Event("preview", "guard", "none", JUndef, promptToUse)
                /\ UNCHANGED <<simpleIdea, slots, flags, inFlight>>
           ELSE /\ isLoadingPreview' = TRUE
                /\ appPreview' = JNull
                /\ appNamesSlogans' = JNull
                /\ monetizationStrategies' = JNull
                /\ techStackSuggestions' = JNull
                /\ error' = NoError
                /\ Issue("preview", promptToUse)
                /\ lastEvent' = Event("preview", "issue", "none", JUndef, promptToUse)
                /\ UNCHANGED <<simpleIdea, enhancedPrompt, customPrompt, isPromptEnhanced,
                               isLoadingEnhance, isLoadingNames, isLoadingMonetization,
                               isLoadingTechStack>>


\* PreviewSettled testing that the description is there, not that it is
\* non-empty (`parsedPreview.description !== undefined`)
PreviewSettled_DescriptionPresent ==
    \E r \in Outstanding("preview"), g \in GatewayResults["preview"] :
        LET parsedPreview == g.ret
        IN  /\ Settle(r)
            /\ IF g.raised
               THEN /\ appPreview' = JNull
                    /\ error' = ErrorAfter(g)
               ELSE IF Truthy(parsedPreview) /\ Get(parsedPreview, "description") # JUndef
               THEN /\ appPreview' = parsedPreview
                    /\ error' = ErrorAfter(g)
               ELSE /\ error' = MsgPreviewMalformed
                    /\ appPreview' = JNull
            /\ isLoadingPreview' = FALSE
            /\ lastEvent' = Event("preview", "settle", g.class, g.ret, r.input)
            /\ UNCHANGED <<simpleIdea, enhancedPrompt, customPrompt, isPromptEnhanced,
                           appNamesSlogans, monetizationStrategies, techStackSuggestions,
                           isLoadingEnhance, isLoadingNames, isLoadingMonetization,
                           isLoadingTechStack>>

\* PreviewSettled with the test `if (parsedPreview)` (no critical field)
PreviewSettled_NoFieldCheck ==
    \E r \in Outstanding("preview"), g \in GatewayResults["preview"] :
        LET parsedPreview == g.ret
        IN  /\ Settle(r)
            /\ IF g.raised
               THEN /\ appPreview' = JNull
                    /\ error' = ErrorAfter(g)
               ELSE IF Truthy(parsedPreview)
               THEN /\ appPreview' = parsedPreview
                    /\ error' = ErrorAfter(g)
               ELSE /\ error' = MsgPreviewMalformed
                    /\ appPreview' = JNull
            /\ isLoadingPreview' = FALSE
            /\ lastEvent' = Event("preview", "settle", g.class, g.ret, r.input)
            /\ UNCHANGED <<simpleIdea, enhancedPrompt, customPrompt, isPromptEnhanced,
                           appNamesSlogans, monetizationStrategies, techStackSuggestions,
                           isLoadingEnhance, isLoadingNames, isLoadingMonetization,
                           isLoadingTechStack>>

PreviewSettled ==
    \E r \in Outstanding("preview"), g \in GatewayResults["preview"] :
        LET parsedPreview == g.ret
        IN  /\ Settle(r)
            /\ IF g.raised
               THEN /\ appPreview' = JNull
                    /\ error' = ErrorAfter(g)
               ELSE IF Truthy(parsedPreview) /\ Truthy(Get(parsedPreview, "description"))
               THEN /\ appPreview' = parsedPreview
                    /\ error' = ErrorAfter(g)
               ELSE /\ error' = MsgPreviewMalformed
                    /\ appPreview' = JNull
            /\ isLoadingPreview' = FALSE
            /\ lastEvent' = Event("preview", "settle", g.class, g.ret, r.input)
            /\ UNCHANGED <<simpleIdea, enhancedPrompt, customPrompt, isPromptEnhanced,
                           appNamesSlogans, monetizationStrategies, techStackSuggestions,
                           isLoadingEnhance, isLoadingNames, isLoadingMonetization,
                           isLoadingTechStack>>

\* ---------------------------------------------------------------- auxiliary generations
\* `!appPreview || !appPreview.description`
NoPreviewDescription == ~Truthy(appPreview) \/ ~Truthy(Get(appPreview, "description"))


\* handleGenerateNamesSlogans with setIsLoadingNames(true) ahead of its guard
handleGenerateNamesSlogans_FlagFirst ==
    /\ ~NoPreviewDescription => CanIssue
    /\ IF NoPreviewDescription
       THEN /\ isLoadingNames' = TRUE
            /\ error' = MsgNeedPreview
            /\ lastEvent' = Event("names", "guard", "none", JUndef, <<>>)
            /\ UNCHANGED <<simpleIdea, slots, isLoadingEnhance, isLoadingPreview,
                           isLoadingMonetization, isLoadingTechStack, inFlight>>
       ELSE /\ isLoadingNames' = TRUE
            /\ appNamesSlogans' = JNull
            /\ error' = NoError
            /\ Issue("names", Get(appPreview, "description").s)
            /\ lastEvent' = Event("names", "issue", "none", JUndef,
                                  Get(appPreview, "description").s)
            /\ UNCHANGED <<simpleIdea, enhancedPrompt, customPrompt, appPreview,
                           isPromptEnhanced, monetizationStrategies, techStackSuggestions,
                           isLoadingEnhance, isLoadingPreview, isLoadingMonetization,
                           isLoadingTechStack>>

handleGenerateNamesSlogans ==
    /\ ~NoPreviewDescription => CanIssue
    /\ IF NoPreviewDescription
       THEN /\ error' = MsgNeedPreview
            /\ lastEvent' = Event("names", "guard", "none", JUndef, <<>>)
            /\ UNCHANGED <<simpleIdea, slots, flags, inFlight>>
       ELSE /\ isLoadingNames' = TRUE
            /\ appNamesSlogans' = JNull
            /\ error' = NoError
            /\ Issue("names", Get(appPreview, "description").s)
            /\ lastEvent' = Event("names", "issue", "none", JUndef,
                                  Get(appPreview, "description").s)
            /\ UNCHANGED <<simpleIdea, enhancedPrompt, customPrompt, appPreview,
                           isPromptEnhanced, monetizationStrategies, techStackSuggestions,
                           isLoadingEnhance, isLoadingPreview, isLoadingMonetization,
                           isLoadingTechStack>>

\* NamesSettled storing result.names instead of the whole result
NamesSettled_StoresNames ==
    \E r \in Outstanding("names"), g \in GatewayResults["names"] :
        LET result == g.ret
        IN  /\ Settle(r)
            /\ IF g.raised
               THEN UNCHANGED <<appNamesSlogans>> /\ error' = ErrorAfter(g)
               ELSE IF /\ Truthy(result)
                       /\ Truthy(Get(result, "names"))
                       /\ Truthy(Get(result, "taglines"))
               THEN /\ appNamesSlogans' = Get(result, "names")
                    /\ error' = ErrorAfter(g)
               ELSE /\ error' = MsgNamesMalformed
                    /\ appNamesSlogans' = JNull
            /\ isLoadingNames' = FALSE
            /\ lastEvent' = Event("names", "settle", g.class, g.ret, r.input)
            /\ UNCHANGED <<simpleIdea, enhancedPrompt, customPrompt, appPreview,
                           isPromptEnhanced, monetizationStrategies, techStackSuggestions,
                           isLoadingEnhance, isLoadingPreview, isLoadingMonetization,
                           isLoadingTechStack>>

NamesSettled ==
    \E r \in Outstanding("names"), g \in GatewayResults["names"] :
        LET result == g.ret
        IN  /\ Settle(r)
            /\ IF g.raised
               THEN UNCHANGED <<appNamesSlogans>> /\ error' = ErrorAfter(g)
               ELSE IF /\ Truthy(result)
                       /\ Truthy(Get(result, "names"))
                       /\ Truthy(Get(result, "taglines"))
               THEN /\ appNamesSlogans' = result
                    /\ error' = ErrorAfter(g)
               ELSE /\ error' = MsgNamesMalformed
                    /\ appNamesSlogans' = JNull
            /\ isLoadingNames' = FALSE
            /\ lastEvent' = Event("names", "settle", g.class, g.ret, r.input)
            /\ UNCHANGED <<simpleIdea, enhancedPrompt, customPrompt, appPreview,
                           isPromptEnhanced, monetizationStrategies, techStackSuggestions,
                           isLoadingEnhance, isLoadingPreview, isLoadingMonetization,
                           isLoadingTechStack>>


\* handleGenerateMonetizationStrategies calling a gateway without clearError()
handleGenerateMonetizationStrategies_NoClear ==
    /\ ~NoPreviewDescription => CanIssue
    /\ IF NoPreviewDescription
       THEN /\ error' = MsgNeedPreview
            /\ lastEvent' = Event("monetization", "guard", "none", JUndef, <<>>)
            /\ UNCHANGED <<simpleIdea, slots, flags, inFlight>>
       ELSE /\ isLoadingMonetization' = TRUE
            /\ monetizationStrategies' = JNull
            /\ Issue("monetization", Get(appPreview, "description").s)
            /\ lastEvent' = Event("monetization", "issue", "none", JUndef,
                                  Get(appPreview, "description").s)
            /\ UNCHANGED <<simpleIdea, enhancedPrompt, customPrompt, appPreview,
                           isPromptEnhanced, appNamesSlogans, techStackSuggestions,
                           isLoadingEnhance, isLoadingPreview, isLoadingNames,
                           isLoadingTechStack, error>>

handleGenerateMonetizationStrategies ==
    /\ ~NoPreviewDescription => CanIssue
    /\ IF NoPreviewDescription
       THEN /\ error' = MsgNeedPreview
            /\ lastEvent' = Event("monetization", "guard", "none", JUndef, <<>>)
            /\ UNCHANGED <<simpleIdea, slots, flags, inFlight>>
       ELSE /\ isLoadingMonetization' = TRUE
            /\ monetizationStrategies' = JNull
            /\ error' = NoError
            /\ Issue("monetization", Get(appPreview, "description").s)
            /\ lastEvent' = Event("monetization", "issue", "none", JUndef,
                                  Get(appPreview, "description").s)
            /\ UNCHANGED <<simpleIdea, enhancedPrompt, customPrompt, appPreview,
                           isPromptEnhanced, appNamesSlogans, techStackSuggestions,
                           isLoadingEnhance, isLoadingPreview, isLoadingNames,
                           isLoadingTechStack>>

MonetizationSettled ==
    \E r \in Outstanding("monetization"), g \in GatewayResults["monetization"] :
        LET result == g.ret
        IN  /\ Settle(r)
            /\ IF g.raised
               THEN UNCHANGED <<monetizationStrategies>> /\ error' = ErrorAfter(g)
               ELSE IF Truthy(result) /\ Truthy(Get(result, "strategies"))
               THEN /\ monetizationStrategies' = Get(result, "strategies")
                    /\ error' = ErrorAfter(g)
               ELSE /\ error' = MsgMonetizationMalformed
                    /\ monetizationStrategies' = JNull
            /\ isLoadingMonetization' = FALSE
            /\ lastEvent' = Event("monetization", "settle", g.class, g.ret, r.input)
            /\ UNCHANGED <<simpleIdea, enhancedPrompt, customPrompt, appPreview,
                           isPromptEnhanced, appNamesSlogans, techStackSuggestions,
                           isLoadingEnhance, isLoadingPreview, isLoadingNames,
                           isLoadingTechStack>>

\* handleGenerateTechStack clearing the other two auxiliary results as well
handleGenerateTechStack_ClearsAll ==
    /\ ~NoPreviewDescription => CanIssue
    /\ IF NoPreviewDescription
       THEN /\ error' = MsgNeedPreview
            /\ lastEvent' = Event("techstack", "guard", "none", JUndef, <<>>)
            /\ UNCHANGED <<simpleIdea, slots, flags, inFlight>>
       ELSE /\ isLoadingTechStack' = TRUE
            /\ techStackSuggestions' = JNull
            /\ appNamesSlogans' = JNull
            /\ monetizationStrategies' = JNull
            /\ error' = NoError
            /\ Issue("techstack", Get(appPreview, "description").s)
            /\ lastEvent' = Event("techstack", "issue", "none", JUndef,
                                  Get(appPreview, "description").s)
            /\ UNCHANGED <<simpleIdea, enhancedPrompt, customPrompt, appPreview,
                           isPromptEnhanced, isLoadingEnhance, isLoadingPreview,
                           isLoadingNames, isLoadingMonetization>>

handleGenerateTechStack ==
    /\ ~NoPreviewDescription => CanIssue
    /\ IF NoPreviewDescription
       THEN /\ error' = MsgNeedPreview
            /\ lastEvent' = Event("techstack", "guard", "none", JUndef, <<>>)
            /\ UNCHANGED <<simpleIdea, slots, flags, inFlight>>
       ELSE /\ isLoadingTechStack' = TRUE
            /\ techStackSuggestions' = JNull
            /\ error' = NoError
            /\ Issue("techstack", Get(appPreview, "description").s)
            /\ lastEvent' = Event("techstack", "issue", "none", JUndef,
                                  Get(appPreview, "description").s)
            /\ UNCHANGED <<simpleIdea, enhancedPrompt, customPrompt, appPreview,
                           isPromptEnhanced, appNamesSlogans, monetizationStrategies,
                           isLoadingEnhance, isLoadingPreview, isLoadingNames,
                           isLoadingMonetization>>


\* TechStackSettled with setIsLoadingTechStack(false) on the success path
\* only (no finally)
TechStackSettled_NoFinally ==
    \E r \in Outstanding("techstack"), g \in GatewayResults["techstack"] :
        LET result == g.ret
        IN  /\ Settle(r)
            /\ IF g.raised
               THEN UNCHANGED <<techStackSuggestions>> /\ error' = ErrorAfter(g)
               ELSE IF Truthy(result)
               THEN /\ techStackSuggestions' = result
                    /\ error' = ErrorAfter(g)
               ELSE /\ error' = MsgTechStackMalformed
                    /\ techStackSuggestions' = JNull
            /\ isLoadingTechStack' = g.failed
            /\ lastEvent' = Event("techstack", "settle", g.class, g.ret, r.input)
            /\ UNCHANGED <<simpleIdea, enhancedPrompt, customPrompt, appPreview,
                           isPromptEnhanced, appNamesSlogans, monetizationStrategies,
                           isLoadingEnhance, isLoadingPreview, isLoadingNames,
                           isLoadingMonetization>>

TechStackSettled ==
    \E r \in Outstanding("techstack"), g \in GatewayResults["techstack"] :
        LET result == g.ret
        IN  /\ Settle(r)
            /\ IF g.raised
               THEN UNCHANGED <<techStackSuggestions>> /\ error' = ErrorAfter(g)
               ELSE IF Truthy(result)
               THEN /\ techStackSuggestions' = result
                    /\ error' = ErrorAfter(g)
               ELSE /\ error' = MsgTechStackMalformed
                    /\ techStackSuggestions' = JNull
            /\ isLoadingTechStack' = FALSE
            /\ lastEvent' = Event("techstack", "settle", g.class, g.ret, r.input)
            /\ UNCHANGED <<simpleIdea, enhancedPrompt, customPrompt, appPreview,
                           isPromptEnhanced, appNamesSlogans, monetizationStrategies,
                           isLoadingEnhance, isLoadingPreview, isLoadingNames,
                           isLoadingMonetization>>

\* ---------------------------------------------------------------- specifications
Settled ==
    \/ EnhanceSettled
    \/ PreviewSettled
    \/ NamesSettled
    \/ MonetizationSettled
    \/ TechStackSettled

\* A handler is not entered again while its own call is outstanding: its
\* button carries disabled={isLoading...}.
\* the tech-stack button without its `disabled` attribute
InvokeTechStack_NeverDisabled == handleGenerateTechStack

InvokeEnhance == ~isLoadingEnhance /\ handleEnhancePrompt
InvokePreview == ~isLoadingPreview /\ handleGenerateAppPreview
InvokeNames == ~isLoadingNames /\ handleGenerateNamesSlogans
InvokeMonetization == ~isLoadingMonetization /\ handleGenerateMonetizationStrategies
InvokeTechStack == ~isLoadingTechStack /\ handleGenerateTechStack

\* the handlers and callbacks as functions: whatever the page renders, each
\* may be called in every state in which it is not already running
Next ==
    \/ onChangeSimpleIdea
    \/ onChangeCustomPrompt
    \/ InvokeEnhance
    \/ InvokePreview
    \/ InvokeNames
    \/ InvokeMonetization
    \/ InvokeTechStack
    \/ Settled

Spec == Init /\ [][Next]_vars

\* the rendered page: a control exists only inside its section's render
\* guard and a disabled button delivers no click
TypeCustomPrompt == isPromptEnhanced /\ onChangeCustomPrompt
ClickEnhance == InvokeEnhance
ClickPreview == isPromptEnhanced /\ trim(customPrompt) # <<>> /\ InvokePreview
ClickNames == Truthy(appPreview) /\ InvokeNames
ClickMonetization == Truthy(appPreview) /\ InvokeMonetization
ClickTechStack == Truthy(appPreview) /\ InvokeTechStack

NextUI ==
    \/ onChangeSimpleIdea
    \/ TypeCustomPrompt
    \/ ClickEnhance
    \/ ClickPreview
    \/ ClickNames
    \/ ClickMonetization
    \/ ClickTechStack
    \/ Settled

SpecUI == Init /\ [][NextUI]_vars

\* every issued fetch settles: the transport resolves or rejects each one
Fairness ==
    /\ WF_vars(EnhanceSettled)
    /\ WF_vars(PreviewSettled)
    /\ WF_vars(NamesSettled)
    /\ WF_vars(MonetizationSettled)
    /\ WF_vars(TechStackSettled)

FairSpec == SpecUI /\ Fairness

\* callGeminiApi on its own: one call per step, for each operation's
\* schema and each answer of the network; the call starts by clearError()
GatewayCall ==
    \E op \in Ops : \E o \in Outcomes(op) :
        LET g == callGeminiApi(o, HasSchema(op))
        IN  /\ error' = (IF g.failed THEN g.error ELSE NoError)
            /\ lastEvent' = [op |-> op, kind |-> "gateway", class |-> g.class,
                             ret |-> g.ret, input |-> <<>>, outcome |-> o,
                             raised |-> g.raised]
            /\ UNCHANGED <<simpleIdea, slots, flags, inFlight>>

GatewaySpec == Init /\ [][GatewayCall]_vars

\* ---------------------------------------------------------------- vocabulary of the properties
\* '' or whitespace only
Blank(s) == \A i \in 1..Len(s) : s[i] = " "

Absent(v) == v = JNull

\* an object carrying a non-empty description
HasDescription(v) ==
    /\ v.t = "object"
    /\ "description" \in DOMAIN v.f
    /\ v.f["description"].t = "string"
    /\ v.f["description"].txt # "empty"

AuxOps == {"names", "monetization", "techstack"}

LoadingOf(op) ==
    CASE op = "enhance" -> isLoadingEnhance
      [] op = "preview" -> isLoadingPreview
      [] op = "names" -> isLoadingNames
      [] op = "monetization" -> isLoadingMonetization
      [] OTHER -> isLoadingTechStack

\* the operation's own result slot holds nothing
SlotAbsent(op) ==
    CASE op = "enhance" -> enhancedPrompt = <<>>
      [] op = "preview" -> Absent(appPreview)
      [] op = "names" -> Absent(appNamesSlogans)
      [] op = "monetization" -> Absent(monetizationStrategies)
      [] OTHER -> Absent(techStackSuggestions)

GuidanceOf(op) ==
    CASE op = "enhance" -> MsgIdea
      [] op = "preview" -> MsgPrompt
      [] OTHER -> MsgNeedPreview

AuxAbsent ==
    /\ Absent(appNamesSlogans)
    /\ Absent(monetizationStrategies)
    /\ Absent(techStackSuggestions)

\* the step just taken was a trigger of op / the completion of a call of op
TriggerOf(op) == lastEvent.op = op /\ lastEvent.kind \in {"guard", "issue"}
CompletionOf(op) == lastEvent.op = op /\ lastEvent.kind = "settle"

\* ---------------------------------------------------------------- C1
\* C1: a trigger of enhancement while Idea is blank, or of preview while
\* EditablePrompt is blank, issues no request, sets no loading flag, changes
\* no result slot and leaves ErrorMessage equal to that operation's
\* input-guidance message.
C1_BlankInputShortCircuits ==
    [][ /\ (TriggerOf("enhance")' /\ Blank(simpleIdea))
             => (UNCHANGED <<slots, flags, inFlight>> /\ error' = MsgIdea)
        /\ (TriggerOf("preview")' /\ Blank(customPrompt))
             => (UNCHANGED <<slots, flags, inFlight>> /\ error' = MsgPrompt) ]_vars

C1_Witness ==
    /\ TriggerOf("preview")
    /\ customPrompt = <<" ">>
    /\ simpleIdea = <<" ">>
    /\ error = MsgPrompt

\* ---------------------------------------------------------------- C2
\* C2: a trigger of names/slogans, monetization or tech stack while
\* AppPreview is absent or has no description issues no request, leaves the
\* operation's loading flag false and its result slot unchanged, and sets
\* ErrorMessage to the precondition error.
C2_AuxNeedsPreview ==
    [][ \A op \in AuxOps :
          (TriggerOf(op)' /\ ~HasDescription(appPreview))
             => /\ UNCHANGED <<slots, flags, inFlight>>
                /\ ~LoadingOf(op)'
                /\ error' = MsgNeedPreview ]_vars

C2_Witness ==
    /\ TriggerOf("techstack")
    /\ Absent(appPreview)
    /\ error = MsgNeedPreview
    /\ ~isLoadingTechStack

\* ---------------------------------------------------------------- C3
\* C3: immediately after a change of Idea, AppPreview is absent,
\* EnhancedPrompt and EditablePrompt are empty, the three auxiliary results
\* are absent and ErrorMessage is empty.
C3_IdeaChangeResets ==
    (lastEvent.op = "idea") =>
        /\ Absent(appPreview)
        /\ enhancedPrompt = <<>>
        /\ customPrompt = <<>>
        /\ AuxAbsent
        /\ error = NoError

\* Idea changed while a preview call, started from a non-blank
\* EditablePrompt, is still outstanding
C3_Witness ==
    /\ lastEvent.op = "idea"
    /\ isLoadingPreview
    /\ simpleIdea # <<>>

\* ---------------------------------------------------------------- C4
\* C4: immediately after an enhancement call completes with a non-empty
\* text, EnhancedPrompt and EditablePrompt both equal that text and
\* isPromptEnhanced is true.
C4_EnhanceSeedsBoth ==
    (/\ CompletionOf("enhance")
     /\ lastEvent.ret.t = "string"
     /\ lastEvent.ret.txt # "empty")
        => /\ enhancedPrompt = lastEvent.ret.s
           /\ customPrompt = lastEvent.ret.s
           /\ isPromptEnhanced

C4_Witness ==
    /\ CompletionOf("enhance")
    /\ lastEvent.ret = JStr(<<"b", " ">>)
    /\ customPrompt = <<"b", " ">>

\* ---------------------------------------------------------------- C5
\* C5: immediately after a preview call completes with a reply that has no
\* description or an empty one, AppPreview is absent and ErrorMessage is
\* non-empty.
C5_PreviewNeedsDescription ==
    (CompletionOf("preview") /\ ~HasDescription(lastEvent.ret))
        => (Absent(appPreview) /\ error # NoError)

C5_Witness ==
    /\ CompletionOf("preview")
    /\ lastEvent.class = "none"
    /\ lastEvent.ret = JObj([appName |-> JStr(<<"n">>)])
    /\ Absent(appPreview)

\* ---------------------------------------------------------------- C6
\* C6 as stated: immediately after a preview call completes with an object
\* whose description is non-empty, AppPreview equals that object and the
\* three auxiliary slots are absent, under every interleaving.
C6_AsStated ==
    (CompletionOf("preview") /\ HasDescription(lastEvent.ret))
        => (appPreview = lastEvent.ret /\ AuxAbsent)

\* C6 amended: immediately after such a completion AppPreview equals that
\* object; the three auxiliary slots are absent immediately after the
\* preview trigger and the completion does not write them (so they are
\* absent unless an auxiliary response landed while the preview call was
\* outstanding).
C6_PreviewStored ==
    [][ /\ (lastEvent'.op = "preview" /\ lastEvent'.kind = "issue") => AuxAbsent'
        /\ (CompletionOf("preview")' /\ HasDescription(lastEvent'.ret))
             => /\ appPreview' = lastEvent'.ret
                /\ UNCHANGED <<appNamesSlogans, monetizationStrategies,
                               techStackSuggestions>> ]_vars

\* a preview stored next to names/slogans that landed during its call
C6_Witness ==
    /\ CompletionOf("preview")
    /\ HasDescription(lastEvent.ret)
    /\ appPreview = lastEvent.ret
    /\ ~Absent(appNamesSlogans)

\* ---------------------------------------------------------------- C7
\* C7: for each of the five operations, given that every issued call
\* settles, a loading flag that is true eventually becomes false again: no
\* flag stays true for ever.  (P ~> ~P is []<>~P.)
C7_LoadingClears ==
    /\ []<>(~isLoadingEnhance)
    /\ []<>(~isLoadingPreview)
    /\ []<>(~isLoadingNames)
    /\ []<>(~isLoadingMonetization)
    /\ []<>(~isLoadingTechStack)

\* a tech-stack call that failed in the gateway, its flag cleared
C7_Witness ==
    /\ CompletionOf("techstack")
    /\ lastEvent.class = "reject"
    /\ ~isLoadingTechStack

\* ---------------------------------------------------------------- C8
\* the failure class of a network outcome, told from the outcome alone
EnvelopeWithPart(op) ==
    { JObj([candidates |-> JArr(<<Content(JArr(<<part>>))>>)]) :
        part \in {EmptyObject} \cup {JObj([text |-> x]) : x \in PartTexts(op)} }

PartText(envelope) ==
    Get(envelope.f["candidates"].a[1].f["content"].f["parts"].a[1], "text")

NotJsonText(x) == IF x.t # "string" THEN TRUE ELSE x.txt # "json"

FailureClass(op, o) ==
    CASE o.k = "reject" -> "network rejection"
      [] o.status < 200 \/ o.status > 299 -> "non-success status"
      [] o.body = JStr(<<>>) -> "empty body"
      [] o.body.txt # "json" -> "unparseable envelope"
      [] o.body.v \notin EnvelopeWithPart(op) -> "missing path"
      [] HasSchema(op) /\ NotJsonText(PartText(o.body.v)) -> "unparseable inner JSON"
      [] OTHER -> "none"

\* C8: for every failure class the gateway call raises nothing to its
\* caller, sets ErrorMessage to a non-empty string and returns the empty
\* string when no schema was supplied and the empty object when one was.
C8_GatewayNeverRaises ==
    (lastEvent.kind = "gateway")
        => /\ ~lastEvent.raised
           /\ FailureClass(lastEvent.op, lastEvent.outcome) # "none"
                => /\ error # NoError
                   /\ lastEvent.ret =
                        (IF lastEvent.op = "enhance" THEN JStr(<<>>) ELSE EmptyObject)

\* an inner text that is not JSON, answered to a call with a schema
C8_Witness ==
    /\ lastEvent.kind = "gateway"
    /\ lastEvent.op = "names"
    /\ FailureClass(lastEvent.op, lastEvent.outcome) = "unparseable inner JSON"
    /\ lastEvent.ret = EmptyObject
    /\ error # NoError

\* ---------------------------------------------------------------- C9
\* C9: a trigger discards the ErrorMessage present before it: after a
\* trigger whose preconditions pass ErrorMessage is empty when the request
\* is issued, and after one whose preconditions fail ErrorMessage is that
\* trigger's guidance message.
C9_TriggerReplacesError ==
    [][ \A op \in Ops :
          /\ (lastEvent'.op = op /\ lastEvent'.kind = "issue") => error' = NoError
          /\ (lastEvent'.op = op /\ lastEvent'.kind = "guard") => error' = GuidanceOf(op)
      ]_vars

\* monetization triggered with a preview present: its request is
\* outstanding and ErrorMessage is empty
C9_Witness ==
    /\ lastEvent.op = "monetization"
    /\ lastEvent.kind = "issue"
    /\ isLoadingMonetization
    /\ error = NoError

\* ---------------------------------------------------------------- C10
\* C10: for each of the five operations, immediately after the handler
\* completes a call whose gateway call failed, the operation's own result
\* slot is absent (empty for EnhancedPrompt) and ErrorMessage is non-empty.
C10_FailedCallLeavesSlotAbsent ==
    \A op \in Ops :
        (CompletionOf(op) /\ lastEvent.class # "none")
            => (SlotAbsent(op) /\ error # NoError)

\* ---------------------------------------------------------------- C11
\* the piece every message of the gateway's catch block starts with
FromGateway(msg) == msg # NoError /\ Head(msg) = "Failed to connect to AI: "

MalformedOf(op) ==
    CASE op = "preview" -> MsgPreviewMalformed
      [] op = "names" -> MsgNamesMalformed
      [] op = "monetization" -> MsgMonetizationMalformed
      [] OTHER -> MsgTechStackMalformed

\* C11: after a preview, names/slogans or monetization call whose gateway
\* call failed, ErrorMessage is the gateway's cause-embedding message; the
\* handler's own "incomplete or malformed" message is there only when the
\* gateway set no error.
C11_GatewayErrorKept ==
    \A op \in {"preview", "names", "monetization"} :
        CompletionOf(op) =>
            /\ lastEvent.class # "none" => FromGateway(error)
            /\ error = MalformedOf(op) => lastEvent.class = "none"

\* ---------------------------------------------------------------- C12
\* C12: immediately after the handler completes an enhancement call,
\* whatever its outcome, EnhancedPrompt is non-empty or ErrorMessage is
\* non-empty.
C12_EnhanceNeverSilent ==
    CompletionOf("enhance") => (enhancedPrompt # <<>> \/ error # NoError)

\* ---------------------------------------------------------------- C13
\* the message contains the piece
Embeds(msg, piece) == \E i \in 1..Len(msg) : msg[i] = piece

\* C13: for every reply with a non-success HTTP status, whatever its body,
\* the ErrorMessage set by the gateway embeds the status code.
C13_StatusEmbedded ==
    (/\ lastEvent.kind = "gateway"
     /\ lastEvent.outcome.k = "response"
     /\ (lastEvent.outcome.status < 200 \/ lastEvent.outcome.status > 299))
        => Embeds(error, ToString(lastEvent.outcome.status))

\* ---------------------------------------------------------------- C14
\* an object carrying a names list and a taglines list
HasNamesAndTaglines(v) ==
    /\ v.t = "object"
    /\ Get(v, "names").t = "array"
    /\ Get(v, "taglines").t = "array"

\* C14: when a names/slogans call completes with an object that has both
\* names and taglines, NamesAndSlogans equals that object, the names loading
\* flag is false, and the completion leaves AppPreview, Monetization and
\* TechStackSuggestion as they were.
C14_NamesStored ==
    [][ (CompletionOf("names")' /\ HasNamesAndTaglines(lastEvent'.ret))
          => /\ appNamesSlogans' = lastEvent'.ret
             /\ ~isLoadingNames'
             /\ UNCHANGED <<appPreview, monetizationStrategies, techStackSuggestions>>
      ]_vars

\* a names/slogans call completed with both lists while a preview and a
\* monetization result were present
C14_Witness ==
    /\ CompletionOf("names")
    /\ HasNamesAndTaglines(lastEvent.ret)
    /\ appNamesSlogans = lastEvent.ret
    /\ HasDescription(appPreview)
    /\ ~Absent(monetizationStrategies)

\* ---------------------------------------------------------------- C15
\* a tech-stack call completed with the empty object as the model's reply
TechStackRepliedEmptyObject ==
    /\ CompletionOf("techstack")
    /\ lastEvent.class = "none"
    /\ lastEvent.ret = EmptyObject

\* C15 as stated: after a tech-stack call that succeeds with an
\* empty-object reply, TechStackSuggestion is the empty object and
\* ErrorMessage is empty.
C15_AsStated ==
    TechStackRepliedEmptyObject
        => (techStackSuggestions = EmptyObject /\ error = NoError)

\* C15: a tech-stack completion with an empty-object reply stores the empty
\* object and does not write ErrorMessage; a failed call sets ErrorMessage to
\* the gateway's message; a reply that is no object clears the slot and sets
\* the handler's malformed-response message.
C15_EmptyObjectIsSuccess ==
    [][ CompletionOf("techstack")' =>
          /\ TechStackRepliedEmptyObject'
                => (techStackSuggestions' = EmptyObject /\ error' = error)
          /\ lastEvent'.class # "none" => FromGateway(error')
          /\ (lastEvent'.class = "none" /\ ~Truthy(lastEvent'.ret))
                => (Absent(techStackSuggestions') /\ error' = MsgTechStackMalformed)
      ]_vars

\* the empty-object reply arrived while nothing else had written ErrorMessage
C15_Witness ==
    /\ TechStackRepliedEmptyObject
    /\ techStackSuggestions = EmptyObject
    /\ error = NoError

\* ---------------------------------------------------------------- C16
\* the requests of an operation that have been issued and not yet settled
RequestsOutstanding(op) == Sum(inFlight, {r \in Requests : r.op = op})

\* C16: with every operation triggered only while its button is enabled,
\* each operation has at most one request outstanding and its loading flag
\* is true exactly while that request is outstanding.
C16_OneOutstandingPerOp ==
    \A op \in Ops :
        /\ RequestsOutstanding(op) <= 1
        /\ LoadingOf(op) <=> RequestsOutstanding(op) = 1

\* two operations have one request each outstanding
C16_Witness ==
    /\ isLoadingNames
    /\ isLoadingTechStack
    /\ RequestsOutstanding("names") = 1
    /\ RequestsOutstanding("techstack") = 1

\* ---------------------------------------------------------------- C17
\* an enhancement call completed for a request built from another Idea than
\* the current one
StaleEnhanceCompletion ==
    /\ CompletionOf("enhance")
    /\ lastEvent.input # simpleIdea
    /\ lastEvent.ret.t = "string"
    /\ lastEvent.ret.txt # "empty"

\* C17: no edit and no trigger removes an outstanding request, and an
\* enhancement response that arrives after the Idea has been changed is
\* still applied: EnhancedPrompt and EditablePrompt are its text and
\* isPromptEnhanced is true.
C17_NeverCancelled ==
    [][ /\ lastEvent'.kind # "settle"
            => \A r \in Requests : inFlight'[r] >= inFlight[r]
        /\ StaleEnhanceCompletion'
            => /\ enhancedPrompt' = lastEvent'.ret.s
               /\ customPrompt' = lastEvent'.ret.s
               /\ isPromptEnhanced'
      ]_vars

\* EnhancedPrompt was generated from an Idea that is not the current one
C17_Witness ==
    /\ StaleEnhanceCompletion
    /\ enhancedPrompt = lastEvent.ret.s
    /\ isPromptEnhanced
    /\ ~isLoadingEnhance

\* ---------------------------------------------------------------- C18
\* the precondition of each trigger, read in the state it is clicked in
PreconditionsPass(op) ==
    CASE op = "enhance" -> ~Blank(simpleIdea)
      [] op = "preview" -> ~Blank(customPrompt)
      [] OTHER -> HasDescription(appPreview)

\* C18: a trigger whose preconditions pass issues exactly one request, one
\* whose preconditions fail issues none, an edit issues none, and a
\* completion, failed or not, takes its request away and issues no other.
C18_OneRequestPerPassingTrigger ==
    [][ /\ \A op \in Ops :
              /\ (TriggerOf(op)' /\ PreconditionsPass(op))
                    => \E r \in Requests :
                          /\ r.op = op
                          /\ inFlight' = [inFlight EXCEPT ![r] = @ + 1]
              /\ (TriggerOf(op)' /\ ~PreconditionsPass(op))
                    => inFlight' = inFlight
              /\ CompletionOf(op)'
                    => \E r \in Requests :
                          /\ r.op = op
                          /\ inFlight[r] > 0
                          /\ inFlight' = [inFlight EXCEPT ![r] = @ - 1]
        /\ lastEvent'.kind = "edit" => inFlight' = inFlight
      ]_vars

\* a preview call failed on a rejected fetch and nothing is outstanding
\* after its completion
C18_Witness ==
    /\ CompletionOf("preview")
    /\ lastEvent.class = "reject"
    /\ \A r \in Requests : inFlight[r] = 0
    /\ error # NoError

\* ---------------------------------------------------------------- C19
\* the result slot of an auxiliary operation
SlotOf(op) ==
    CASE op = "names" -> appNamesSlogans
      [] op = "monetization" -> monetizationStrategies
      [] OTHER -> techStackSuggestions

\* C19: the start and the completion of an auxiliary generation leave the
\* other two auxiliary slots, every other operation's loading flag,
\* AppPreview, EnhancedPrompt and EditablePrompt unchanged, whatever else is
\* outstanding.
C19_AuxWritesOwnSlotOnly ==
    [][ \A op \in AuxOps :
          (TriggerOf(op)' \/ CompletionOf(op)')
              => /\ \A other \in AuxOps \ {op} : SlotOf(other)' = SlotOf(other)
                 /\ \A other \in Ops \ {op} : LoadingOf(other)' = LoadingOf(other)
                 /\ UNCHANGED <<appPreview, enhancedPrompt, customPrompt>>
      ]_vars

\* a names/slogans call completed with a result while a monetization call
\* was outstanding and a tech-stack result was present
C19_Witness ==
    /\ CompletionOf("names")
    /\ ~Absent(appNamesSlogans)
    /\ isLoadingMonetization
    /\ RequestsOutstanding("monetization") = 1
    /\ ~Absent(techStackSuggestions)

\* ---------------------------------------------------------------- C20
\* C20: an edit of EditablePrompt and the start or completion of a preview
\* or of an auxiliary generation never change EnhancedPrompt or
\* isPromptEnhanced, and an edit of EditablePrompt changes nothing but
\* EditablePrompt.
C20_EnhancedPromptImmutable ==
    [][ /\ lastEvent'.op \in {"prompt", "preview"} \cup AuxOps
            => UNCHANGED <<enhancedPrompt, isPromptEnhanced>>
        /\ lastEvent'.op = "prompt"
            => UNCHANGED <<simpleIdea, enhancedPrompt, appPreview, isPromptEnhanced,
                           appNamesSlogans, monetizationStrategies,
                           techStackSuggestions, flags, error, inFlight>>
      ]_vars

\* EditablePrompt was edited away from the text the enhancement produced
C20_Witness ==
    /\ lastEvent.op = "prompt"
    /\ isPromptEnhanced
    /\ enhancedPrompt # <<>>
    /\ customPrompt # enhancedPrompt

\* ---------------------------------------------------------------- C21
\* C21: in every reachable state AppPreview is absent or an object with a
\* non-empty description.
C21_PreviewHasDescription == Absent(appPreview) \/ HasDescription(appPreview)

\* a preview reply with an empty description arrived and no preview is
\* stored
C21_Witness ==
    /\ CompletionOf("preview")
    /\ lastEvent.class = "none"
    /\ lastEvent.ret = JObj([description |-> JStr(<<>>)])
    /\ Absent(appPreview)
    /\ error = MsgPreviewMalformed

\* ---------------------------------------------------------------- C22
\* an auxiliary result is present only with a preview
AuxOnlyWithPreview == ~AuxAbsent => ~Absent(appPreview)

\* C22 as stated: in every reachable state, if NamesAndSlogans,
\* MonetizationStrategies or TechStackSuggestion is present then AppPreview
\* is present.
C22_AsStated == AuxOnlyWithPreview

\* C22: an auxiliary result is present without a preview only through the
\* arrival of an auxiliary response while AppPreview is absent: every other
\* step (edit, trigger, enhancement or preview completion) that starts with
\* every auxiliary result accompanied by a preview ends so, and an
\* auxiliary request is issued only while AppPreview has a description.
C22_OnlyStaleArrivalBreaks ==
    [][ /\ (AuxOnlyWithPreview /\ ~AuxOnlyWithPreview')
            => \E op \in AuxOps :
                  /\ CompletionOf(op)'
                  /\ Absent(appPreview)
                  /\ ~Absent(SlotOf(op)')
        /\ (lastEvent'.op \in AuxOps /\ lastEvent'.kind = "issue")
            => HasDescription(appPreview)
      ]_vars

\* a names/slogans response issued under an earlier preview arrived while
\* the next preview call was outstanding
C22_Witness ==
    /\ CompletionOf("names")
    /\ ~Absent(appNamesSlogans)
    /\ Absent(appPreview)
    /\ isLoadingPreview

\* ---------------------------------------------------------------- C23
\* C23: in every reachable state with no enhancement request outstanding,
\* isPromptEnhanced is true only if EnhancedPrompt is non-empty.
C23_EnhancedFlagNeedsText ==
    (RequestsOutstanding("enhance") = 0 /\ isPromptEnhanced)
        => enhancedPrompt # <<>>

====
